---- MODULE Spec2Model ----
(***************************************************************************)
(* A model of package bite (bite.go): the Application aggregate, its       *)
(* build life cycle, the process-wide application registry, the command    *)
(* look-ups, the info printer and the machine-friendly flag registration.  *)
(*                                                                         *)
(* The cobra command tree and the pflag flag sets are external libraries:  *)
(* a command is a node with a Use line, a parent and an ordered list of    *)
(* children; a flag set holds at most one "machine-friendly" definition    *)
(* bound to a bool pointer.                                                *)
(***************************************************************************)
EXTENDS Integers, Sequences, FiniteSets

\* ---------------------------------------------------------------- bounds
NumApps == 3          \* Application values of the process
MaxCmds == 4          \* cobra commands created by the program (besides roots)
MaxLive == 2          \* commands given to the applications that are run

\* the nil pointer / nil command / nil application
Nil == 0

Apps == 1..NumApps
Cmds == 1..MaxCmds
\* the root command that Build allocates for application i (&cobra.Command{})
RootOf(i) == MaxCmds + i
Roots == {RootOf(i) : i \in Apps}
Nodes == Cmds \cup Roots
\* the application whose commands the program nests with cobra's AddCommand,
\* and the applications built beside it
NestedApps == {1}
BesideApps == {1, 2}
\* the applications and commands of the run life cycle
LiveApps == {1}
LiveCmds == 1..MaxLive

\* Application.Name of the i-th application: two applications share a name
NamePool == <<"a", "b">>
AppNameOf(i) == NamePool[((i - 1) % Len(NamePool)) + 1]

\* the name (first word of Use) of the k-th user command
CmdNamePool == <<"x", "b", "t", "t">>
CmdNameOf(k) == CmdNamePool[((k - 1) % Len(CmdNamePool)) + 1]
\* an application of the same name as the one that is run, built beside it
TwinApps == {i \in Apps \ LiveApps : \E j \in LiveApps : AppNameOf(i) = AppNameOf(j)}
AllNames == {NamePool[k] : k \in 1..Len(NamePool)}
              \cup {CmdNamePool[k] : k \in 1..Len(CmdNamePool)}

\* errors: NoErr is the nil error
NoErr == "nil"
RawErrs == {"e1", "e3"}
Formats == { <<"h">>, <<"h", "\n">> }

VARIABLES
  applications,   \* var applications []*Application
  app,            \* the fields of every Application
  use,            \* cobra.Command.Use of every command, as words
  parent,         \* cobra.Command.parent
  children,       \* cobra.Command.commands
  flagset,        \* the machine-friendly flag of every command's flag set
  silent,         \* per application: --silent is set on its current command
  mem,            \* the bools allocated by new(bool)
  pfCalls,        \* per application: calls of its PersistentFlags configurator
  added,          \* per application: the commands passed to AddCommand, in order
  out,            \* what the last call wrote to the output
  ret,            \* the last call and what it returned
  crashed         \* the panic that ended the process, or "none"

vars == <<applications, app, use, parent, children, flagset, silent, mem,
          pfCalls, added, out, ret, crashed>>

\* the program state as one value, so that a call can be composed of calls
St == [applications |-> applications, app |-> app, use |-> use,
       parent |-> parent, children |-> children, flagset |-> flagset,
       silent |-> silent, mem |-> mem, pfCalls |-> pfCalls, added |-> added]

Install(S) ==
  LET T == S
  IN /\ applications' = T.applications
     /\ app' = T.app
     /\ use' = T.use
     /\ parent' = T.parent
     /\ children' = T.children
     /\ flagset' = T.flagset
     /\ silent' = T.silent
     /\ mem' = T.mem
     /\ pfCalls' = T.pfCalls
     /\ added' = T.added

\* the record of a call: unused fields keep their defaults
Ret(op, a) == [op |-> op, app |-> a, cmd |-> Nil, res |-> Nil, err |-> NoErr,
               raw |-> NoErr, path |-> "", flag |-> FALSE, text |-> <<>>]

\* ------------------------------------------------------ cobra: the tree
\* cobra.Command.Name(): the first word of Use
Name(S, c) == Head(S.use[c])

\* cobra.Command.Commands()
Commands(S, c) == S.children[c]

\* cobra.Command.HasParent()
HasParent(S, c) == S.parent[c] # Nil

\* cobra.Command.AddCommand(x): x.parent = c; c.commands = append(c.commands, x)
CobraAdd(S, c, x) ==
  [S EXCEPT !.parent[x] = c, !.children[c] = Append(@, x)]

RECURSIVE CobraAddAll(_, _, _)
CobraAddAll(S, c, xs) ==
  IF xs = <<>> THEN S ELSE CobraAddAll(CobraAdd(S, c, Head(xs)), c, Tail(xs))

RECURSIVE IsAncestorOrSelf(_, _, _)
IsAncestorOrSelf(S, a, c) ==
  IF a = c THEN TRUE
  ELSE IF S.parent[c] = Nil THEN FALSE
  ELSE IsAncestorOrSelf(S, a, S.parent[c])

\* the commands of the subtree below c, c included
Subtree(S, c) == {n \in Nodes : S.use[n] # <<>> /\ IsAncestorOrSelf(S, c, n)}

\* ------------------------------------------------------ the registry
\* registerApplication: override the entry of the same name, else append
RECURSIVE registerFrom(_, _, _, _)
registerFrom(S, apps, k, i) ==
  IF k > Len(apps) THEN Append(apps, i)
  ELSE IF S.app[apps[k]].Name = S.app[i].Name THEN [apps EXCEPT ![k] = i]
  ELSE registerFrom(S, apps, k + 1, i)

\* variant: a registry that never overrides
registerAlwaysAppend(S, i) == Append(S.applications, i)

registerApplication(S, i) == registerFrom(S, S.applications, 1, i)

\* GetByName: the first application of that name, or nil
RECURSIVE getByNameFrom(_, _, _)
getByNameFrom(S, k, applicationName) ==
  IF k > Len(S.applications) THEN Nil
  ELSE IF S.app[S.applications[k]].Name = applicationName THEN S.applications[k]
  ELSE getByNameFrom(S, k + 1, applicationName)

GetByName(S, applicationName) == getByNameFrom(S, 1, applicationName)

\* Get: the application of the command's name, else that of its parent
\* variant: no walk to the parent
GetNoWalk(S, cmd) == GetByName(S, Name(S, cmd))

RECURSIVE Get(_, _)
Get(S, cmd) ==
  IF GetByName(S, Name(S, cmd)) # Nil THEN GetByName(S, Name(S, cmd))
  ELSE IF HasParent(S, cmd) THEN Get(S, S.parent[cmd])
  ELSE Nil

\* variant: every child is compared before the descent into the first
RECURSIVE getCommandAllChildren(_, _, _)
RECURSIVE searchChildren(_, _, _, _)
searchChildren(S, cs, k, subCommandName) ==
  IF k > Len(cs) THEN Nil
  ELSE IF Name(S, cs[k]) = subCommandName THEN cs[k]
  ELSE searchChildren(S, cs, k + 1, subCommandName)

getCommandAllChildren(S, from, subCommandName) ==
  IF searchChildren(S, Commands(S, from), 1, subCommandName) # Nil
  THEN searchChildren(S, Commands(S, from), 1, subCommandName)
  ELSE IF Commands(S, from) = <<>> THEN Nil
  ELSE getCommandAllChildren(S, Head(Commands(S, from)), subCommandName)

\* getCommand: the loop body returns in its first iteration, so only the
\* first child is compared and descended into
RECURSIVE getCommand(_, _, _)
getCommand(S, from, subCommandName) ==
  IF Commands(S, from) = <<>> THEN Nil
  ELSE IF Name(S, Head(Commands(S, from))) = subCommandName
       THEN Head(Commands(S, from))
  ELSE getCommand(S, Head(Commands(S, from)), subCommandName)

\* GetCommand: nil for an unknown application, else the search from its root
GetCommand(S, applicationName, commandName) ==
  IF GetByName(S, applicationName) = Nil THEN Nil
  ELSE getCommand(S, S.app[GetByName(S, applicationName)].CobraCommand, commandName)

\* ------------------------------------------------------ the flag sets
\* pflag.FlagSet.GetBool("machine-friendly"), its error dropped: false when
\* the flag is not defined, else the value of the bound bool
GetMachineFriendlyFlagFrom(S, set) ==
  IF S.flagset[set].defs = 0 THEN FALSE ELSE S.mem[S.flagset[set].ptr]

GetMachineFriendlyFlag(S, cmd) == GetMachineFriendlyFlagFrom(S, cmd)

\* pflag.FlagSet.BoolVar(ptr, key, false, usage): *ptr = false and one more
\* definition of the flag (a second definition makes pflag panic)
BoolVar(S, set, ptr) ==
  [S EXCEPT !.mem[ptr] = FALSE,
            !.flagset[set] = [defs |-> @.defs + 1,
                              ptr |-> IF @.defs = 0 THEN ptr ELSE @.ptr]]

\* RegisterMachineFriendlyFlagTo: guarded by the flag's value, not by its
\* presence; a nil pointer is replaced by new(bool)
RegisterMachineFriendlyFlagTo(S, set, ptr) ==
  IF ~GetMachineFriendlyFlagFrom(S, set)
  THEN IF ptr = Nil
       THEN BoolVar([S EXCEPT !.mem = Append(@, FALSE)], set, Len(S.mem) + 1)
       ELSE BoolVar(S, set, ptr)
  ELSE S

RegisterMachineFriendlyFlag(S, cmd, ptr) == RegisterMachineFriendlyFlagTo(S, cmd, ptr)

\* ------------------------------------------------------ Build
\* useText: the name, with " [command] [flags]" appended (names have no '[')
UseText(name) == <<name, "[command]", "[flags]">>

\* the part of Build that runs when the application is not built yet
BuildFresh(S, i) ==
  LET rootCmd == RootOf(i)
      ptr == Len(S.mem) + 1
      S1 == [S EXCEPT !.app[i].FriendlyErrors =
                          IF @ = "nil" THEN "empty" ELSE @,
                      !.use[rootCmd] = UseText(S.app[i].Name),
                      !.mem = Append(@, FALSE),
                      !.app[i].MachineFriendly = ptr]
      S2 == IF ~S1.app[i].DisableOutputFormatController
            THEN RegisterMachineFriendlyFlagTo(S1, rootCmd, ptr)
            ELSE S1
      S3 == IF S2.app[i].PersistentFlags
            THEN [S2 EXCEPT !.pfCalls[i] = @ + 1]
            ELSE S2
      S4 == IF Len(S3.app[i].commands) > 0
            THEN [CobraAddAll(S3, rootCmd, S3.app[i].commands)
                    EXCEPT !.app[i].commands = <<>>]
            ELSE S3
      S5 == [S4 EXCEPT !.app[i].currentCommand = rootCmd,
                       !.app[i].CobraCommand = rootCmd]
  IN [S5 EXCEPT !.applications = registerApplication(S5, i)]

\* variant: no early return for a built application
BuildAgain(S, i) == BuildFresh(S, i)

\* Build: the state after the call (the root it returns is app.CobraCommand)
Build(S, i) ==
  IF S.app[i].CobraCommand # Nil THEN S ELSE BuildFresh(S, i)

\* variant: the command goes to the pending list also after the build
AddCommandAlwaysPending(S, i, cmd) ==
  [S EXCEPT !.app[i].commands = Append(@, cmd), !.added[i] = Append(@, cmd)]

\* Application.AddCommand
AddCommand(S, i, cmd) ==
  IF S.app[i].CobraCommand = Nil
  THEN [S EXCEPT !.app[i].commands = Append(@, cmd), !.added[i] = Append(@, cmd)]
  ELSE [CobraAdd(S, S.app[i].CobraCommand, cmd) EXCEPT !.added[i] = Append(@, cmd)]

\* ------------------------------------------------------ initial states
InitApp(i, spinner, disable, pf, table) ==
  [Name |-> AppNameOf(i), ShowSpinner |-> spinner,
   DisableOutputFormatController |-> disable, MachineFriendly |-> Nil,
   PersistentFlags |-> pf, commands |-> <<>>, currentCommand |-> Nil,
   CobraCommand |-> Nil,
   FriendlyErrors |-> table]

InitRest ==
  /\ applications = <<>>
  /\ use = [n \in Nodes |-> IF n \in Cmds THEN <<CmdNameOf(n)>> ELSE <<>>]
  /\ parent = [n \in Nodes |-> Nil]
  /\ children = [n \in Nodes |-> <<>>]
  /\ flagset = [n \in Nodes |-> [defs |-> 0, ptr |-> Nil]]
  /\ silent = [i \in Apps |-> FALSE]
  /\ mem = <<>>
  /\ pfCalls = [i \in Apps |-> 0]
  /\ added = [i \in Apps |-> <<>>]
  /\ out = <<>>
  /\ ret = Ret("init", Nil)
  /\ crashed = "none"

\* applications as struct literals with default behaviour flags
InitTree ==
  /\ app = [i \in Apps |-> InitApp(i, FALSE, FALSE, FALSE, "nil")]
  /\ InitRest

\* a command that is in no tree and in no pending list yet
Fresh(c) ==
  /\ parent[c] = Nil
  /\ \A i \in Apps : \A k \in 1..Len(app[i].commands) : app[i].commands[k] # c

\* ------------------------------------------------------ the calls
CallBuild(i) ==
  /\ crashed = "none"
  /\ Install(Build(St, i))
  /\ ret' = [Ret("Build", i) EXCEPT !.cmd = Build(St, i).app[i].CobraCommand,
                                    !.flag = (app[i].CobraCommand = Nil)]
  /\ out' = <<>>
  /\ UNCHANGED crashed

CallAddCommand(i, c) ==
  /\ crashed = "none"
  /\ Fresh(c)
  /\ Install(AddCommand(St, i, c))
  /\ ret' = Ret("AddCommand", i)
  /\ out' = <<>>
  /\ UNCHANGED crashed

\* the program builds a subtree with cobra's own AddCommand
CallCobraAddCommand(p, c) ==
  /\ crashed = "none"
  /\ Fresh(c)
  /\ ~IsAncestorOrSelf(St, c, p)
  /\ Install(CobraAdd(St, p, c))
  /\ ret' = Ret("cobra.AddCommand", Nil)
  /\ out' = <<>>
  /\ UNCHANGED crashed

NextTree ==
  \/ \E i \in BesideApps : CallBuild(i)
  \/ \E i \in NestedApps, c \in Cmds : CallAddCommand(i, c)
  \/ \E p \in Cmds, c \in Cmds : CallCobraAddCommand(p, c)

SpecTree == InitTree /\ [][NextTree]_vars

\* ------------------------------------------------------ printing
\* strings.HasSuffix(format, "\n")
HasNewlineSuffix(format) == format # <<>> /\ format[Len(format)] = "\n"

\* Application.Print: the text written (Fprintf of a format without verbs)
ApplicationPrint(format) ==
  IF ~HasNewlineSuffix(format) THEN format \o <<"\r", "\n">> ELSE format

\* GetSilentFlag(app.currentCommand): the --silent flag of that command
GetSilentFlag(S, i) == S.silent[i]

\* variant: the silent flag is not consulted
PrintInfoIgnoresSilent(S, i, format) ==
  IF S.mem[S.app[i].MachineFriendly] THEN <<>> ELSE ApplicationPrint(format)

\* Application.PrintInfo on an application whose MachineFriendly is set:
\* the text written
PrintInfo(S, i, format) ==
  IF S.mem[S.app[i].MachineFriendly] \/ GetSilentFlag(S, i)
  THEN <<>>
  ELSE ApplicationPrint(format)

\* ------------------------------------------------------ Run
\* the friendly-error table of an application
TableLookup(table, err) ==
  IF table = "chain" /\ err = "e1" THEN "e2"
  ELSE IF table = "chain" /\ err = "e2" THEN "f2"
  ELSE err

\* ackError(app.FriendlyErrors, err)
ackError(table, err) == IF err = NoErr THEN NoErr ELSE TableLookup(table, err)

\* ExecuteWithSpinner(rootCmd): the error of rootCmd.Execute()
ExecuteWithSpinner(err) == err

\* rootCmd.ParseFlags(args), its error dropped: --machine-friendly[=v] sets
\* the bound bool when the flag is defined on the root
ParseFlags(S, rootCmd, mfArg) ==
  IF mfArg # "absent" /\ S.flagset[rootCmd].defs > 0
  THEN [S EXCEPT !.mem[S.flagset[rootCmd].ptr] = (mfArg = "true")]
  ELSE S

\* rootCmd.Execute(): the engine parses the same arguments again, and when it
\* resolves a command (target) the pre-run hook binds it as the current
\* command; sil is the value the arguments leave in that command's --silent
Execute(S, i, target, sil) ==
  IF target = Nil THEN S
  ELSE [S EXCEPT !.app[i].currentCommand = target, !.silent[i] = sil]

\* Application.Run up to the execution: Build, ParseFlags, commands = nil
RunPrepare(S, i, mfArg) ==
  LET S1 == Build(S, i)
      S2 == ParseFlags(S1, S1.app[i].CobraCommand, mfArg)
  IN [S2 EXCEPT !.app[i].commands = <<>>]

\* the branch of Run: the spinner wraps the execution
RunPath(S, i) ==
  IF S.app[i].ShowSpinner /\ ~S.mem[S.app[i].MachineFriendly]
  THEN "spinner" ELSE "plain"

\* variant: the spinner path returns the execution's error as it is
RunErrSpinnerRaw(S, i, raw) ==
  IF RunPath(S, i) = "spinner"
  THEN ExecuteWithSpinner(raw)
  ELSE ackError(S.app[i].FriendlyErrors, raw)

\* the error Run returns for the execution's error raw
RunErr(S, i, raw) ==
  IF RunPath(S, i) = "spinner"
  THEN ackError(S.app[i].FriendlyErrors, ExecuteWithSpinner(raw))
  ELSE ackError(S.app[i].FriendlyErrors, raw)

\* ------------------------------------------------------ the life cycle
\* applications configured by the program before they are built
Init ==
  /\ \E sp \in BOOLEAN, dis \in BOOLEAN, pf \in BOOLEAN :
       app = [i \in Apps |-> IF i \in LiveApps
                              THEN InitApp(i, sp, dis, pf, "chain")
                              ELSE InitApp(i, FALSE, FALSE, FALSE, "nil")]
  /\ InitRest

CallRun(i) ==
  /\ crashed = "none"
  /\ \E mfArg \in {"absent", "true", "false"} :
       LET S1 == RunPrepare(St, i, mfArg)
       IN \E target \in Subtree(S1, S1.app[i].CobraCommand) \cup {Nil} :
            \E sil \in IF target = Nil THEN {S1.silent[i]} ELSE BOOLEAN :
              /\ Install(Execute(S1, i, target, sil))
              /\ \E raw \in RawErrs \cup {NoErr} :
                   ret' = [Ret("Run", i) EXCEPT
                             !.cmd = S1.app[i].CobraCommand,
                             !.raw = raw,
                             !.err = RunErr(S1, i, raw),
                             !.path = RunPath(S1, i),
                             !.flag = (app[i].CobraCommand = Nil)]
  /\ out' = <<>>
  /\ UNCHANGED crashed

\* ApplicationBuilder.Parse: Build, then ParseFlags
CallParse(i, mfArg) ==
  /\ crashed = "none"
  /\ LET S1 == Build(St, i)
     IN /\ Install(ParseFlags(S1, S1.app[i].CobraCommand, mfArg))
        /\ ret' = [Ret("Parse", i) EXCEPT !.cmd = S1.app[i].CobraCommand,
                                          !.flag = (app[i].CobraCommand = Nil)]
  /\ out' = <<>>
  /\ UNCHANGED crashed

CallPrint(i, format) ==
  /\ crashed = "none"
  /\ out' = ApplicationPrint(format)
  /\ ret' = [Ret("Print", i) EXCEPT !.text = format]
  /\ UNCHANGED <<applications, app, use, parent, children, flagset, silent,
                 mem, pfCalls, added, crashed>>

\* Application.PrintInfo: *app.MachineFriendly panics while the pointer is nil
CallPrintInfo(i, format) ==
  /\ crashed = "none"
  /\ IF app[i].MachineFriendly = Nil
     THEN /\ crashed' = "PrintInfo"
          /\ out' = <<>>
     ELSE /\ out' = PrintInfo(St, i, format)
          /\ UNCHANGED crashed
  /\ ret' = [Ret("PrintInfo", i) EXCEPT !.text = format]
  /\ UNCHANGED <<applications, app, use, parent, children, flagset, silent,
                 mem, pfCalls, added>>

\* PrintObject(app.currentCommand, v): cmd.Root() panics on a nil command
CallPrintObject(i) ==
  /\ crashed = "none"
  /\ IF app[i].currentCommand = Nil
     THEN /\ crashed' = "PrintObject"
          /\ out' = <<>>
     ELSE /\ out' = IF GetMachineFriendlyFlag(St, app[i].CobraCommand)
                    THEN <<"json">> ELSE <<"table">>
          /\ UNCHANGED crashed
  /\ ret' = Ret("PrintObject", i)
  /\ UNCHANGED <<applications, app, use, parent, children, flagset, silent,
                 mem, pfCalls, added>>

\* ApplicationBuilder.GetFlags: CobraCommand.Flags() panics on a nil root
CallGetFlags(i) ==
  /\ crashed = "none"
  /\ IF app[i].CobraCommand = Nil
     THEN crashed' = "GetFlags"
     ELSE UNCHANGED crashed
  /\ ret' = [Ret("GetFlags", i) EXCEPT !.cmd = app[i].CobraCommand]
  /\ out' = <<>>
  /\ UNCHANGED <<applications, app, use, parent, children, flagset, silent,
                 mem, pfCalls, added>>

Next ==
  \/ \E i \in LiveApps \cup TwinApps : CallBuild(i)
  \/ \E i \in LiveApps, c \in LiveCmds : CallAddCommand(i, c)
  \/ \E i \in LiveApps : CallRun(i)
  \/ \E i \in LiveApps, mfArg \in {"absent", "true", "false"} : CallParse(i, mfArg)
  \/ \E i \in LiveApps, format \in Formats : CallPrint(i, format)
  \/ \E i \in LiveApps, format \in Formats : CallPrintInfo(i, format)
  \/ \E i \in LiveApps : CallPrintObject(i)
  \/ \E i \in LiveApps : CallGetFlags(i)

Spec == Init /\ [][Next]_vars

\* ------------------------------------------------------ the look-ups
Exists(c) == use[c] # <<>>

CallGetByName(applicationName) ==
  /\ crashed = "none"
  /\ ret' = [Ret("GetByName", Nil) EXCEPT !.res = GetByName(St, applicationName)]
  /\ out' = <<>>
  /\ UNCHANGED <<applications, app, use, parent, children, flagset, silent,
                 mem, pfCalls, added, crashed>>

CallGet(cmd) ==
  /\ crashed = "none"
  /\ Exists(cmd)
  /\ ret' = [Ret("Get", Nil) EXCEPT !.cmd = cmd, !.res = Get(St, cmd)]
  /\ out' = <<>>
  /\ UNCHANGED <<applications, app, use, parent, children, flagset, silent,
                 mem, pfCalls, added, crashed>>

\* GetCommand: app.CobraCommand of a registered application is never nil
CallGetCommand(applicationName, commandName) ==
  /\ crashed = "none"
  /\ IF GetByName(St, applicationName) # Nil
        /\ app[GetByName(St, applicationName)].CobraCommand = Nil
     THEN /\ crashed' = "GetCommand"
          /\ ret' = Ret("GetCommand", Nil)
     ELSE /\ UNCHANGED crashed
          /\ ret' = [Ret("GetCommand", GetByName(St, applicationName)) EXCEPT
                       !.cmd = GetCommand(St, applicationName, commandName)]
  /\ out' = <<>>
  /\ UNCHANGED <<applications, app, use, parent, children, flagset, silent,
                 mem, pfCalls, added>>

\* FindCommand: nil for an unknown application; else cobra's Find resolves
\* the arguments to a command of the tree, or fails (nil)
CallFindCommand(applicationName) ==
  /\ crashed = "none"
  /\ IF GetByName(St, applicationName) = Nil
     THEN /\ ret' = Ret("FindCommand", Nil)
          /\ UNCHANGED crashed
     ELSE IF app[GetByName(St, applicationName)].CobraCommand = Nil
     THEN /\ crashed' = "FindCommand"
          /\ ret' = Ret("FindCommand", Nil)
     ELSE /\ UNCHANGED crashed
          /\ \E c \in Subtree(St, app[GetByName(St, applicationName)].CobraCommand)
                        \cup {Nil} :
               ret' = [Ret("FindCommand", GetByName(St, applicationName)) EXCEPT
                         !.cmd = c]
  /\ out' = <<>>
  /\ UNCHANGED <<applications, app, use, parent, children, flagset, silent,
                 mem, pfCalls, added>>

NextReg ==
  \/ \E i \in Apps : CallBuild(i)
  \/ \E i \in LiveApps, c \in LiveCmds : CallAddCommand(i, c)
  \/ \E n \in AllNames : CallGetByName(n)
  \/ \E c \in Nodes : CallGet(c)
  \/ \E n \in AllNames, m \in AllNames : CallGetCommand(n, m)
  \/ \E n \in AllNames : CallFindCommand(n)

SpecReg == InitTree /\ [][NextReg]_vars

\* ------------------------------------------------------ the flag calls
PflagRedefined(S) == \E n \in Nodes : S.flagset[n].defs > 1

\* RegisterMachineFriendlyFlag(cmd, ptr) with nil or an allocated pointer
CallRegisterMachineFriendlyFlag(cmd, ptr) ==
  /\ crashed = "none"
  /\ ptr \in 0..Len(mem)
  /\ LET S1 == RegisterMachineFriendlyFlag(St, cmd, ptr)
     IN /\ Install(S1)
        /\ crashed' = IF PflagRedefined(S1) THEN "flag redefined" ELSE "none"
        /\ ret' = [Ret("RegisterMachineFriendlyFlag", Nil) EXCEPT
                     !.cmd = cmd,
                     !.flag = (flagset[cmd].defs > 0),
                     !.path = IF S1.flagset[cmd].defs > 1 THEN "redefined"
                              ELSE IF S1.flagset = flagset THEN "skipped"
                              ELSE "defined"]
  /\ out' = <<>>

\* cmd.ParseFlags of --machine-friendly=v
CallSetFlag(cmd, v) ==
  /\ crashed = "none"
  /\ Install(ParseFlags(St, cmd, IF v THEN "true" ELSE "false"))
  /\ ret' = [Ret("ParseFlags", Nil) EXCEPT !.cmd = cmd]
  /\ out' = <<>>
  /\ UNCHANGED crashed

NextFlags ==
  \/ \E c \in Cmds, p \in 0..MaxCmds : CallRegisterMachineFriendlyFlag(c, p)
  \/ \E c \in Cmds, v \in BOOLEAN : CallSetFlag(c, v)

SpecFlags == InitTree /\ [][NextFlags]_vars

\* ------------------------------------------------------ properties
Built(i) == app[i].CobraCommand # Nil

\* the commands attached to the root of application i, in order
Attached(i) == IF Built(i) THEN children[app[i].CobraCommand] ELSE <<>>

\* C2: a call of Build on a built application, direct or through Run or
\* ApplicationBuilder.Parse, returns the root of the first call, and neither
\* registers the machine-friendly flag again, nor invokes the persistent-flags
\* configurator, nor attaches a command, nor reallocates MachineFriendly, nor
\* modifies the registry; a direct call changes nothing at all.
C2_BuildIdempotent ==
  [][\A i \in Apps :
       (Built(i) /\ ret'.app = i /\ ret'.op \in {"Build", "Run", "Parse"}) =>
         /\ ret'.cmd = app[i].CobraCommand
         /\ app'[i].CobraCommand = app[i].CobraCommand
         /\ app'[i].MachineFriendly = app[i].MachineFriendly
         /\ Len(mem') = Len(mem)
         /\ flagset' = flagset
         /\ pfCalls' = pfCalls
         /\ children' = children
         /\ parent' = parent
         /\ app'[i].commands = app[i].commands
         /\ applications' = applications
         /\ (ret'.op = "Build" =>
               UNCHANGED <<applications, app, use, parent, children, flagset,
                           silent, mem, pfCalls, added>>)]_vars

\* a second Build was called on an application that has a flag, a
\* configurator and an attached command, while its twin holds its registry slot
C2_Witness ==
  /\ ret.op = "Build" /\ ret.app = 1 /\ ~ret.flag
  /\ flagset[app[1].CobraCommand].defs = 1
  /\ pfCalls[1] = 1
  /\ Len(Attached(1)) > 0
  /\ applications = <<3>>

\* C5: on a built application PrintInfo writes nothing when machine-friendly
\* is true, nothing when the silent flag is set and machine-friendly is
\* false, and what Print writes when both are false; it returns nil when it
\* writes nothing.
C5_PrintInfo ==
  \A i \in Apps :
    (ret.op = "PrintInfo" /\ ret.app = i /\ Built(i)) =>
      /\ crashed = "none"
      /\ mem[app[i].MachineFriendly] => (out = <<>> /\ ret.err = NoErr)
      /\ (silent[i] /\ ~mem[app[i].MachineFriendly]) =>
           (out = <<>> /\ ret.err = NoErr)
      /\ (~silent[i] /\ ~mem[app[i].MachineFriendly]) =>
           out = ApplicationPrint(ret.text)

\* PrintInfo was called with the silent flag set and machine-friendly false
C5_Witness ==
  /\ ret.op = "PrintInfo" /\ Built(ret.app)
  /\ silent[ret.app] /\ ~mem[app[ret.app].MachineFriendly]
  /\ out = <<>>

\* C6: the error Run returns is the execution's error translated once by the
\* friendly-error table, on the spinner path and on the plain path.
C6_TranslatedOnce ==
  ret.op = "Run" =>
    /\ ret.err = ackError(app[ret.app].FriendlyErrors, ret.raw)
    /\ ret.path \in {"spinner", "plain"}

\* Run took the spinner path and the execution failed with a mapped error
\* whose translation is itself mapped
C6_Witness ==
  /\ ret.op = "Run" /\ ret.path = "spinner"
  /\ ret.raw = "e1" /\ ret.err = "e2"
  /\ ackError(app[ret.app].FriendlyErrors, ret.err) # ret.err

\* C7: no public operation panics.
C7_NoCrash == crashed = "none"

\* C10: the commands passed to AddCommand are the commands attached to the
\* root followed by the pending ones, in the order added and without
\* repetition; a built application has no pending command, an application
\* that is not built has none attached; an attached command's parent is the root.
C10_AttachedOnce ==
  \A i \in Apps :
    /\ added[i] = Attached(i) \o app[i].commands
    /\ \A j, k \in 1..Len(added[i]) : added[i][j] = added[i][k] => j = k
    /\ Built(i) => app[i].commands = <<>>
    /\ \A k \in 1..Len(Attached(i)) : parent[Attached(i)[k]] = app[i].CobraCommand
    /\ \A k \in 1..Len(app[i].commands) : parent[app[i].commands[k]] = Nil

\* the first Build of an application attached two pending commands in the
\* order they were added
C10_Witness ==
  /\ ret.op = "Build" /\ ret.flag
  /\ Len(Attached(ret.app)) = 2
  /\ added[ret.app] = Attached(ret.app)
  /\ app[ret.app].commands = <<>>

\* ------------------------------------------------------ registry claims
\* C1: a step that registers an application whose name is registered replaces
\* that entry in its slot and leaves the other entries and the length alone;
\* one with a new name appends; GetByName of the name then returns the new
\* application; no step shortens the registry or changes it otherwise.
C1_RegisterInPlace ==
  [][/\ Len(applications') >= Len(applications)
     /\ \A i \in Apps :
          (~Built(i) /\ app'[i].CobraCommand # Nil) =>
            LET hit == {k \in 1..Len(applications) :
                          app[applications[k]].Name = app[i].Name}
            IN /\ IF hit = {}
                  THEN applications' = Append(applications, i)
                  ELSE /\ Len(applications') = Len(applications)
                       /\ \A k \in 1..Len(applications) :
                            applications'[k] =
                              IF k \in hit THEN i ELSE applications[k]
               /\ GetByName(St', app[i].Name) = i
     /\ (\A i \in Apps : Built(i) <=> app'[i].CobraCommand # Nil) =>
          applications' = applications]_vars

\* the third application took the slot of the first, the second kept its own
C1_Witness ==
  /\ ret.op = "Build" /\ ret.app = 3 /\ ret.flag
  /\ Built(1) /\ Built(2)
  /\ applications = <<3, 2>>
  /\ GetByName(St, "a") = 3

\* the commands from cmd up to its root
RECURSIVE UpPath(_)
UpPath(cmd) == IF parent[cmd] = Nil THEN <<cmd>> ELSE <<cmd>> \o UpPath(parent[cmd])

Registered(n) == \E j \in 1..Len(applications) : app[applications[j]].Name = n

Min(ks) == CHOOSE k \in ks : \A j \in ks : k <= j

\* the positions of the path whose command has a registered name
NamedOn(path) == {k \in 1..Len(path) : Registered(Name(St, path[k]))}

\* C3: Get returns the application registered under the name of the nearest
\* command, from the command up to its root, that has a registered name, and
\* nil when no command on that path has one.
C3_GetNearest ==
  \A cmd \in Nodes :
    Exists(cmd) =>
      LET path == UpPath(cmd)
          named == NamedOn(path)
          found == Get(St, cmd)
      IN IF named = {}
         THEN found = Nil
         ELSE /\ found # Nil
              /\ found = GetByName(St, Name(St, path[Min(named)]))
              /\ app[found].Name = Name(St, path[Min(named)])

\* a command three levels below a root, the root alone bearing a registered name
C3_Witness ==
  \E cmd \in Cmds :
    /\ Len(UpPath(cmd)) = 4
    /\ NamedOn(UpPath(cmd)) = {4}
    /\ Get(St, cmd) # Nil
    /\ app[Get(St, cmd)].CobraCommand = UpPath(cmd)[4]

\* the first child of from, its first child, and so on
RECURSIVE FirstChildChain(_)
FirstChildChain(from) ==
  IF children[from] = <<>> THEN <<>>
  ELSE <<children[from][1]>> \o FirstChildChain(children[from][1])

NamedChain(chain, n) == {k \in 1..Len(chain) : Name(St, chain[k]) = n}

OnChain(from, n) == NamedChain(FirstChildChain(from), n)

\* application i is the one GetByName finds under its name
Resolves(i) == Built(i) /\ GetByName(St, app[i].Name) = i

\* target is the second child of the root's first child, and neither the
\* root's first child nor that child's first child bears its name
SecondOfFirst(i, target) ==
  LET root == app[i].CobraCommand
  IN /\ Len(children[root]) >= 1
     /\ Len(children[children[root][1]]) >= 2
     /\ children[children[root][1]][2] = target
     /\ Name(St, children[root][1]) # Name(St, target)
     /\ Name(St, children[children[root][1]][1]) # Name(St, target)

\* C4 as stated: GetCommand is nil for such a target.
C4_Original ==
  \A i \in Apps : \A target \in Cmds :
    (Resolves(i) /\ SecondOfFirst(i, target)) =>
      GetCommand(St, app[i].Name, Name(St, target)) = Nil

\* C4, amended: GetCommand is nil for such a target when no command of the
\* root's first-child chain bears the target's name.
C4_NotFound ==
  \A i \in Apps : \A target \in Cmds :
    (/\ Resolves(i)
     /\ SecondOfFirst(i, target)
     /\ OnChain(app[i].CobraCommand, Name(St, target)) = {}) =>
      GetCommand(St, app[i].Name, Name(St, target)) = Nil

\* such a target, below a first child that has a first child of its own
C4_Witness ==
  \E i \in Apps : \E target \in Cmds :
    /\ Resolves(i)
    /\ SecondOfFirst(i, target)
    /\ OnChain(app[i].CobraCommand, Name(St, target)) = {}
    /\ Len(FirstChildChain(app[i].CobraCommand)) >= 2
    /\ GetCommand(St, app[i].Name, Name(St, target)) = Nil

\* C8 as stated: a child of the root is found under its name, whatever its
\* position: GetCommand returns the first child of the root of that name.
C8_Original ==
  \A i \in Apps :
    Resolves(i) =>
      \A k \in 1..Len(Attached(i)) :
        GetCommand(St, app[i].Name, Name(St, Attached(i)[k])) =
          Attached(i)[Min({j \in 1..Len(Attached(i)) :
                             Name(St, Attached(i)[j]) = Name(St, Attached(i)[k])})]

\* C8, amended: GetCommand returns the first command of the root's
\* first-child chain that bears the name, and nil when none does.
C8_FirstChildChain ==
  \A i \in Apps :
    Resolves(i) =>
      LET chain == FirstChildChain(app[i].CobraCommand)
      IN \A n \in AllNames :
           GetCommand(St, app[i].Name, n) =
             IF NamedChain(chain, n) = {} THEN Nil
             ELSE chain[Min(NamedChain(chain, n))]

\* a second child of the root that GetCommand does not find, and a command
\* two levels down that it finds
C8_Witness ==
  \E i \in Apps :
    /\ Resolves(i)
    /\ Len(Attached(i)) >= 2
    /\ GetCommand(St, app[i].Name, Name(St, Attached(i)[2])) = Nil
    /\ \E n \in AllNames : OnChain(app[i].CobraCommand, n) # {}
                            /\ Min(OnChain(app[i].CobraCommand, n)) = 2

\* C9: a registration on a flag set that has the flag is skipped.
C9_RegisterSkipped ==
  (ret.op = "RegisterMachineFriendlyFlag" /\ ret.flag) =>
    (ret.path = "skipped" /\ crashed = "none")

====
